---- MODULE Spec2Model ----
(***************************************************************************)
(* ppdire: projection pursuit dimension reduction by the grid algorithm.   *)
(*                                                                         *)
(* The model follows src/src/ppdire/ppdire.py: one fit call of a ppdire    *)
(* object (argument collection, dimension check, preprocessing, the        *)
(* component loop with the plane grid search _gridplane, the pairwise      *)
(* reducer with its outer convergence loop and _gridplane_2, scores,       *)
(* loadings, deflation, the regression step) followed by calls of predict  *)
(* and transform on the fitted object.                                     *)
(*                                                                         *)
(* Numbers.  The code computes in float64.  The model computes exactly:    *)
(* a real matrix is a matrix of integer numerators over one positive       *)
(* denominator, and the grid sizes ndir are those for which every          *)
(* np.linspace angle is a multiple of pi/2, so that cos and sin are        *)
(* exactly -1, 0 or 1 (the code's cos(pi/2) = 6e-17 is taken as 0).        *)
(* The projection index is a plug-in; the model offers deterministic       *)
(* indices computed from the projected vector.                             *)
(*                                                                         *)
(* Environment.  fit compares self.projection_index with the global name   *)
(* dicomo (line 394), which ppdire.py itself does not bind; the model      *)
(* takes the name as bound by the environment and the projection index as  *)
(* a user-defined one, so that the block of lines 394-404 changes nothing. *)
(* whiten_data and scale_data are False and compression is off.            *)
(*                                                                         *)
(* Spec is a whole fit followed by predict and transform, on the grids of  *)
(* one and two directions.  SpecSweep is the outer loop of the reducer on  *)
(* the grid of three directions, from the state the seed and the fold      *)
(* leave on data whose columns after the first are zero.                   *)
(***************************************************************************)
EXTENDS Integers, Sequences, FiniteSets

\* ------------------------------------------------------------ bounds ----
\* maxiter is drawn from 1..MaxIter, the requested component count from 1..MaxH
MaxIter == 2
MaxH == 3

\* grid sizes with exact trigonometry (see above)
NDirs == {1, 2}

\* the rows the data matrices are built from (n = 2 observations)
Rows2 == {<<1, 0>>, <<1, 2>>}
Rows3 == {<<2, 0, 1>>, <<0, 1, 0>>}
DataSets == [1..2 -> Rows2] \cup [1..2 -> Rows3]

\* the plug-in projection indices: f names the functional, py says whether
\* it returns a Python float (True) or a numpy float64 (False)
\* the regression variants of the regopt keyword
RegOpts == {"OLS", "robust", "quantile"}

Indices == { [f |-> "ssq", py |-> FALSE],
             [f |-> "sum", py |-> FALSE],
             [f |-> "sum", py |-> TRUE] }

\* ----------------------------------------------------------- helpers ----
Abs(a) == IF a < 0 THEN -a ELSE a
Min2(a, b) == IF a <= b THEN a ELSE b
Max2(a, b) == IF a >= b THEN a ELSE b

RECURSIVE GCD(_, _)
GCD(a, b) == IF b = 0 THEN a ELSE GCD(b, a % b)

RECURSIVE DotUpTo(_, _, _)
DotUpTo(u, v, k) == IF k = 0 THEN 0 ELSE u[k] * v[k] + DotUpTo(u, v, k - 1)
\* inner product of two vectors
Dot(u, v) == DotUpTo(u, v, Len(u))

RECURSIVE SumUpTo(_, _)
SumUpTo(u, k) == IF k = 0 THEN 0 ELSE u[k] + SumUpTo(u, k - 1)
SumVec(u) == SumUpTo(u, Len(u))

RECURSIVE GcdUpTo(_, _)
GcdUpTo(u, k) == IF k = 0 THEN 0 ELSE GCD(Abs(u[k]), GcdUpTo(u, k - 1))
GcdVec(u) == GcdUpTo(u, Len(u))

\* the sequence f[1], ..., f[k] of a function f, written out
RECURSIVE Vec(_, _)
Vec(f, k) == IF k = 0 THEN <<>> ELSE Append(Vec(f, k - 1), f[k])

\* a matrix is a sequence of rows
NRows(M) == Len(M)
NCols(M) == Len(M[1])
Column(M, c) == Vec([r \in 1..NRows(M) |-> M[r][c]], NRows(M))
\* M * w and M^T * t
MatVec(M, w) == Vec([r \in 1..NRows(M) |-> Dot(M[r], w)], NRows(M))
TMatVec(M, t) == Vec([c \in 1..NCols(M) |-> Dot(Column(M, c), t)], NCols(M))
GcdMat(M) == GcdVec(Vec([r \in 1..NRows(M) |-> GcdVec(M[r])], NRows(M)))
ZeroVec(k) == Vec([c \in 1..k |-> 0], k)

\* m / d in lowest terms, d > 0
Reduced(m, d) ==
  LET g == GCD(GcdMat(m), d)
  IN  [m |-> Vec([r \in 1..NRows(m) |->
                    Vec([c \in 1..NCols(m) |-> m[r][c] \div g], NCols(m))], NRows(m)),
       d |-> d \div g]

\* ---------------------------------------------- angular grid generator ---
\* angles are counted in quarter turns (pi/2)
CosQ(a) == CASE a % 4 = 0 -> 1 [] a % 4 = 1 -> 0 [] a % 4 = 2 -> -1 [] OTHER -> 0
SinQ(a) == CASE a % 4 = 0 -> 0 [] a % 4 = 1 -> 1 [] a % 4 = 2 -> 0 [] OTHER -> -1

\* np.arcsin and np.arccos at -1 and 1, in quarter turns
ArcsinQ(s) == s
ArccosQ(s) == IF s = 1 THEN 0 ELSE 2

\* self.optrange = (-1,1); np.sign leaves it as it is
optrange == <<-1, 1>>
stop0s == ArcsinQ(optrange[1])
stop1s == ArcsinQ(optrange[2])
stop1c == ArccosQ(optrange[1])
stop0c == ArccosQ(optrange[2])
optmax == optrange[2]

\* np.linspace(start, stop, num, endpoint)
linspace(start, stop, num, endpoint) ==
  LET div == IF endpoint THEN Max2(num - 1, 1) ELSE num
  IN  Vec([k \in 1..num |-> start + ((k - 1) * (stop - start)) \div div], num)

\* the candidate directions of the coarse search: columns (cos, sin)
alphamat(nd) ==
  LET nangle == linspace(Max2(stop0c, stop0s), Max2(stop1c, stop1s), nd, FALSE)
  IN  Vec([k \in 1..nd |-> <<optmax * CosQ(nangle[k]), optmax * SinQ(nangle[k])>>], nd)

\* the candidate directions of the refinement passes
alphamat2(nd) ==
  LET nangle == linspace(Min2(stop0c, stop0s), Min2(stop1c, stop1s), nd, TRUE)
  IN  Vec([k \in 1..nd |-> <<optmax * CosQ(nangle[k]), optmax * SinQ(nangle[k])>>], nd)

\* ---------------------------------------------------- projection index ---
\* self.most.fit on the vector with numerators v: the numerator of the
\* value, over denominator d^IndexDegree when v is over d
IndexValue(pim, v) == IF pim.f = "ssq" THEN Dot(v, v) ELSE SumVec(v)
IndexDegree(pim) == IF pim.f = "ssq" THEN 2 ELSE 1

\* the value as the searches use it: squared under square_pi
Measure(pim, sq, v) ==
  IF sq THEN IndexValue(pim, v) * IndexValue(pim, v) ELSE IndexValue(pim, v)
MeasureDegree(pim, sq) == IF sq THEN 2 * IndexDegree(pim) ELSE IndexDegree(pim)

\* ------------------------------------------------------ plane optimizer --
MaxOf(meas) == CHOOSE m \in {meas[k] : k \in 1..Len(meas)} :
                 \A k \in 1..Len(meas) : meas[k] <= m

\* a selection that takes the last of the maximal candidates
ArgMaxLast(meas) ==
  LET maxi == MaxOf(meas)
  IN  CHOOSE k \in 1..Len(meas) :
        /\ meas[k] = maxi
        /\ \A l \in (k + 1)..Len(meas) : meas[l] # maxi

\* np.where(meas == maximo)[0][0]
ArgMaxFirst(meas) ==
  LET maxi == MaxOf(meas)
  IN  CHOOSE k \in 1..Len(meas) :
        /\ meas[k] = maxi
        /\ \A l \in 1..(k - 1) : meas[l] # maxi

\* _gridplane on the n x 2 block with columns (a, b): the directions are
\* generated afresh from ndir whatever alphamat the caller passed
gridplane(a, b, nd, pim, sq) ==
  LET am   == alphamat(nd)
      tj   == Vec([k \in 1..nd |->
                     Vec([r \in 1..Len(a) |-> a[r] * am[k][1] + b[r] * am[k][2]],
                         Len(a))], nd)
      meas == Vec([k \in 1..nd |-> Measure(pim, sq, tj[k])], nd)
      ind  == ArgMaxFirst(meas)
  IN  [wi |-> am[ind], maximo |-> MaxOf(meas), indmax |-> ind,
       meas |-> meas, cand |-> am, blk |-> <<a, b>>]

\* _gridplane_2 on the block with columns (a, b), relative to the last
\* component q of the running combination; div is accepted and not used.
\* ISqrt is np.sqrt on the perfect squares, the only arguments it meets on
\* quarter-turn grids with a combination of norm 1
ISqrt(x) == CHOOSE r \in 0..x : r * r <= x /\ (r + 1) * (r + 1) > x

gridplane_2(a, b, q, nd, pim, sq) ==
  LET am      == alphamat2(nd)
      divisor == Vec([k \in 1..nd |-> ISqrt(1 + 2 * am[k][1] * am[k][2] * q)], nd)
      alpha1  == Vec([k \in 1..nd |->
                        <<am[k][1] \div divisor[k], am[k][2] \div divisor[k]>>], nd)
      tj      == Vec([k \in 1..nd |->
                        Vec([r \in 1..Len(a) |->
                               a[r] * alpha1[k][1] + b[r] * alpha1[k][2]], Len(a))], nd)
      meas    == Vec([k \in 1..nd |-> Measure(pim, sq, tj[k])], nd)
      ind     == ArgMaxFirst(meas)
  IN  [wi |-> alpha1[ind], maximo |-> MaxOf(meas), indmax |-> ind,
       meas |-> meas, cand |-> alpha1, blk |-> <<a, b>>]

\* ------------------------------------------------------------- state ----
VARIABLES
  X,              \* the caller's data matrix (n x p)
  hasY,           \* flag = 'two-block': a response y was passed
  h,              \* n_components / the h keyword
  ndir, maxiter,  \* fit keywords
  square_pi, center_data, return_scaling_object,   \* constructor options
  copy,           \* constructor option copy
  ykw,            \* y was passed as the keyword y, not as args[0]
  regopt,         \* the regopt keyword
  most,           \* the projection index object
  pc,             \* the place fit has reached
  err,            \* the exception fit or predict/transform ended with
  X0,             \* the copy of X fit makes on entry
  E,              \* the deflated data: numerators m over denominator d
  i,              \* index of the component being extracted (0-based)
  wi, maximo,     \* the direction and the value the optimizer returned
  ti,             \* numerators of the score E*wi (over the d of E before)
  W, T, P, Maxobjf, assovec,   \* output matrices (columns), allocated with zeros
  B, bi,          \* coefficient matrix (columns) and the last coefficients
  attrs,          \* the fitted attributes set on the object
  afin, Zopt, afinbest, objf, objfold, ii, j,   \* the reducer's locals
  calls,          \* calls made while extracting the current component
  last,           \* the last plane search: its candidates, values, result
  found,          \* the best objective the reducer evaluated for this
                  \* component and the combination that attained it
  tracked,        \* the objective of the stored afinbest when the outer
                  \* loop's condition was last reached
  res,            \* what the last predict/transform call returned
  callerX,        \* the contents of the array the caller passed as X
  refs,           \* the array each of the names X0, Xs and E is bound to
  bound           \* the regression settings fit has bound as locals

inputs == <<X, hasY, h, ndir, maxiter, square_pi, center_data,
            return_scaling_object, copy, ykw, regopt, most>>
heap == <<callerX, refs>>
reducer == <<afin, Zopt, afinbest, objf, objfold, ii, j, found, tracked>>
outputs == <<W, T, P, Maxobjf, assovec, B, bi, attrs>>
vars == <<inputs, pc, err, X0, E, i, wi, maximo, ti, outputs, reducer,
          calls, last, res, heap, bound>>

n == NRows(X)
p == NCols(X)

NoMatrix == [m |-> <<>>, d |-> 1, nan |-> FALSE]
NoCalls == [gridplane |-> 0, gridplane_2 |-> 0, fold |-> 0, sweeps |-> 0]
NoSearch == [fn |-> "none", wi |-> <<>>, maximo |-> 0, indmax |-> 0,
             meas |-> <<>>, cand |-> <<>>, blk |-> <<>>]
NoBest == [v |-> <<>>, d2 |-> 1, alias |-> FALSE]
NoValue == [n |-> 0, d |-> 1]
NoFound == [obj |-> NoValue, afin |-> <<>>]
NoRefs == [X0 |-> "unbound", Xs |-> "unbound", E |-> "unbound"]

Init ==
  /\ X \in DataSets
  /\ hasY \in BOOLEAN
  /\ h \in 1..MaxH
  /\ ndir \in NDirs
  /\ maxiter \in 1..MaxIter
  /\ square_pi \in BOOLEAN
  /\ center_data \in BOOLEAN
  /\ return_scaling_object \in BOOLEAN
  /\ copy \in BOOLEAN
  /\ ykw \in (IF hasY THEN BOOLEAN ELSE {FALSE})
  /\ regopt \in (IF hasY THEN RegOpts ELSE {"OLS"})
  /\ most \in Indices
  /\ pc = "start"
  /\ err = "none"
  /\ X0 = <<>>
  /\ E = NoMatrix
  /\ i = 0
  /\ wi = <<>>
  /\ maximo = 0
  /\ ti = <<>>
  /\ W = <<>> /\ T = <<>> /\ P = <<>> /\ Maxobjf = <<>> /\ assovec = <<>>
  /\ B = <<>> /\ bi = 0
  /\ attrs = {}
  /\ afin = <<>> /\ Zopt = <<>> /\ afinbest = NoBest
  /\ objf = NoValue /\ objfold = NoValue /\ ii = 0 /\ j = 0
  /\ found = NoFound
  /\ tracked = NoValue
  /\ calls = NoCalls
  /\ last = NoSearch
  /\ res = [op |-> "none"]
  /\ callerX = [m |-> X, d |-> 1, nan |-> FALSE]
  /\ refs = NoRefs
  /\ bound = {}

\* ------------------------------------------------ fit: entry and checks --
\* a dimension check against the larger of the two dimensions
DimensionsWithinMax(hh, nn, pp) == hh <= Max2(nn, pp)

\* the dimension check of line 420
DimensionsOK(hh, nn, pp) == hh <= Min2(nn, pp)

\* an assignment that binds the name to the same array
SameArray(ref) == ref

\* copy.deepcopy: a new array with the same contents
deepcopy(ref) == "own"

\* np.array(X0).astype('float64') (line 415): a new array in either case
astype(ref) == "own"

\* lines 351-391: quantile, fun and probp1..3 are assigned only in the
\* branch that finds y among the keywords
SettingsBound(kw, ro) ==
  IF kw THEN {"quantile"} \cup (IF ro = "robust"
                                 THEN {"fun", "probp1", "probp2", "probp3"} ELSE {})
  ELSE {}

\* lines 698-709: the locals the regression step of each variant reads
SettingsRead(ro) ==
  IF ro = "robust" THEN {"fun", "probp1", "probp2", "probp3"}
  ELSE IF ro = "quantile" THEN {"quantile"} ELSE {}

\* lines 317-421: collect the arguments, build the projection index, copy X,
\* check the dimensions
FitBegin ==
  /\ pc = "start"
  /\ X0' = callerX.m
  /\ refs' = [refs EXCEPT !.X0 = astype(IF copy THEN deepcopy("caller") ELSE "caller")]
  /\ IF DimensionsOK(h, n, p)
       THEN pc' = "preprocess" /\ err' = err
       ELSE pc' = "failed" /\ err' = "MyException"
  /\ bound' = IF hasY THEN SettingsBound(ykw, regopt) ELSE {}
  /\ UNCHANGED <<inputs, callerX, E, i, wi, maximo, ti, outputs, reducer, calls, last, res>>

\* centring.fit(X) of the external sprm.robcent, as column mean centring:
\* numerators n*x - (column sum) over denominator n
Centred(M) ==
  Reduced(Vec([r \in 1..NRows(M) |->
                 Vec([c \in 1..NCols(M) |->
                        NRows(M) * M[r][c] - SumVec(Column(M, c))], NCols(M))],
              NRows(M)),
          NRows(M))

\* lines 455-462: Xs is the array centring.fit returns, or X itself
XsRef(centre) == IF centre THEN "own" ELSE "caller"

\* lines 426-570: centring, the zero output matrices, E = deepcopy(Xs), the
\* grid ranges and arguments
Preprocess ==
  /\ pc = "preprocess"
  /\ E' = LET Xs == IF center_data THEN Centred(callerX.m) ELSE [m |-> callerX.m, d |-> 1]
          IN  [m |-> Xs.m, d |-> Xs.d, nan |-> FALSE]
  /\ refs' = [refs EXCEPT !.Xs = XsRef(center_data), !.E = deepcopy(XsRef(center_data))]
  /\ W' = Vec([k \in 1..h |-> ZeroVec(p)], h)
  /\ T' = Vec([k \in 1..h |-> [v |-> ZeroVec(n), d |-> 1]], h)
  /\ P' = Vec([k \in 1..h |-> [v |-> ZeroVec(p), d |-> 1]], h)
  /\ Maxobjf' = Vec([k \in 1..h |-> NoValue], h)
  /\ assovec' = Vec([k \in 1..h |-> NoValue], h)
  /\ B' = ZeroVec(h)
  /\ bi' = 0
  /\ i' = 0
  /\ calls' = NoCalls
  /\ pc' = "opt"
  /\ UNCHANGED <<inputs, callerX, bound, err, X0, wi, maximo, ti, attrs, reducer, last, res>>

\* ------------------------------------------------ fit: component loop ---
\* a routing that sends two variables through the reducer as well
RouteAllToReducer(pp) == IF pp >= 2 THEN "reducer" ELSE "none"

\* lines 575 and 581: which optimizer extracts a component
Route(pp) == IF pp = 2 THEN "plane" ELSE IF pp > 2 THEN "reducer" ELSE "none"

\* the copy Z of E (line 584); E is not written until the deflation
Z == E.m
\* a value of the projection index on a projection of E
ValueOn(v) == [n |-> Measure(most, square_pi, v), d |-> E.d ^ MeasureDegree(most, square_pi)]
Searched(fn, r) == [fn |-> fn, wi |-> r.wi, maximo |-> r.maximo,
                    indmax |-> r.indmax, meas |-> r.meas, cand |-> r.cand,
                    blk |-> r.blk]

\* lines 575-579: p = 2, one plane search on E.  On data that is all NaN
\* every value is NaN, indmax stays empty, wi is 2 x 0 and line 676 raises
PlaneSearch ==
  /\ pc = "opt"
  /\ Route(p) = "plane"
  /\ IF E.nan
       THEN /\ pc' = "failed" /\ err' = "ValueError"
            /\ UNCHANGED <<wi, maximo, last>>
       ELSE LET r == gridplane(Column(Z, 1), Column(Z, 2), ndir, most, square_pi)
            IN  /\ wi' = r.wi
                /\ maximo' = [n |-> r.maximo, d |-> E.d ^ MeasureDegree(most, square_pi)]
                /\ last' = Searched("gridplane", r)
                /\ pc' = "scores" /\ err' = err
  /\ calls' = [calls EXCEPT !.gridplane = @ + 1]
  /\ UNCHANGED <<inputs, heap, bound, X0, E, i, ti, outputs, reducer, res>>

\* lines 586-590: the index of every single variable, optionally squared
Univariate == Vec([k \in 1..p |-> Measure(most, square_pi, Column(E.m, k))], p)

\* lines 583-593: p > 2, the univariate values (computed and not used), the
\* seed search on the first two variables
Seed ==
  /\ pc = "opt"
  /\ Route(p) = "reducer"
  /\ IF E.nan
       THEN /\ pc' = "failed" /\ err' = "ValueError"
            /\ UNCHANGED <<wi, maximo, last, afin, Zopt, j>>
       ELSE LET r == gridplane(Column(Z, 1), Column(Z, 2), ndir, most, square_pi)
            IN  /\ wi' = r.wi
                /\ maximo' = [n |-> r.maximo, d |-> E.d ^ MeasureDegree(most, square_pi)]
                /\ last' = Searched("gridplane", r)
                /\ Zopt' = Vec([r0 \in 1..n |-> Z[r0][1] * r.wi[1] + Z[r0][2] * r.wi[2]], n)
                /\ afin' = Vec([c \in 1..p |-> IF c <= 2 THEN r.wi[c] ELSE 0], p)
                /\ j' = 2
                /\ pc' = IF 2 < p THEN "fold" ELSE "objf"
                /\ err' = err
  /\ calls' = [calls EXCEPT !.gridplane = @ + 1]
  /\ UNCHANGED <<inputs, heap, bound, X0, E, i, ti, outputs, afinbest, objf, objfold, ii, found, tracked, res>>

\* a fold that writes w1 one entry too early
FoldUpdateShifted(af, jj, w) ==
  Vec([c \in 1..Len(af) |-> IF c = jj THEN w[2]
                            ELSE IF c <= jj + 1 THEN af[c] * w[1] ELSE af[c]], Len(af))

\* lines 600-602: fold variable jj (0-based) into the combination
FoldUpdate(af, jj, w) ==
  Vec([c \in 1..Len(af) |-> IF c = jj + 1 THEN w[2]
                            ELSE IF c <= jj + 1 THEN af[c] * w[1] ELSE af[c]], Len(af))

\* lines 594-602: one pass of the sequential fold
Fold ==
  /\ pc = "fold"
  /\ j < p
  /\ LET r == gridplane(Zopt, Column(Z, j + 1), ndir, most, square_pi)
     IN  /\ wi' = r.wi
         /\ maximo' = [n |-> r.maximo, d |-> E.d ^ MeasureDegree(most, square_pi)]
         /\ last' = Searched("gridplane", r)
         /\ Zopt' = Vec([r0 \in 1..n |-> Zopt[r0] * r.wi[1] + Z[r0][j + 1] * r.wi[2]], n)
         /\ afin' = FoldUpdate(afin, j, r.wi)
  /\ j' = j + 1
  /\ pc' = IF j + 1 < p THEN "fold" ELSE "objf"
  /\ calls' = [calls EXCEPT !.gridplane = @ + 1, !.fold = @ + 1]
  /\ UNCHANGED <<inputs, heap, bound, err, X0, E, i, ti, outputs, afinbest, objf, objfold, ii,
                 found, tracked, res>>

\* line 614: the value objf starts the outer loop with
Sentinel == -1000

\* lines 604-617: the objective of the folded combination, the loop's start
ObjEval ==
  /\ pc = "objf"
  /\ objfold' = ValueOn(MatVec(Z, afin))
  /\ objf' = [n |-> Sentinel, d |-> 1]
  /\ afinbest' = [v |-> afin, d2 |-> 1, alias |-> TRUE]
  /\ ii' = 0
  /\ found' = [obj |-> ValueOn(MatVec(Z, afin)), afin |-> afin]
  /\ tracked' = ValueOn(MatVec(Z, afin))
  /\ pc' = "while"
  /\ UNCHANGED <<inputs, heap, bound, err, X0, E, i, wi, maximo, ti, outputs, afin, Zopt, j,
                 calls, last, res>>

\* line 619: 1e-4 as 1/TolInv
TolInv == 10000

\* a and b over one denominator
OnCommon(a, b) ==
  IF a.d = b.d THEN <<a.n, b.n>>
  ELSE IF a.d = 1 THEN <<a.n * b.d, b.n>>
  ELSE <<a.n, b.n * a.d>>

\* abs(objfold - objf)/abs(objf) > 1e-4 in float64: with objf = 0 the
\* quotient is inf (True) or, for 0/0, nan (False)
RelChangeExceeds(old, new) ==
  LET c == OnCommon(old, new)
  IN  Abs(c[1] - c[2]) > Abs(c[2]) \div TolInv

\* line 619: the sweeps the loop condition allows
SweepAllowed(it, mx) == it < mx + 1

\* line 619: the loop condition; a Python float objf = 0 makes the division
\* raise ZeroDivisionError
While ==
  /\ pc = "while"
  /\ IF ~SweepAllowed(ii, maxiter)
       THEN pc' = "afterloop" /\ err' = err
       ELSE IF objf.n = 0 /\ most.py
         THEN pc' = "failed" /\ err' = "ZeroDivisionError"
         ELSE /\ pc' = IF RelChangeExceeds(objfold, objf) THEN "sweep" ELSE "afterloop"
              /\ err' = err
  /\ j' = 0
  /\ UNCHANGED <<inputs, heap, bound, X0, E, i, wi, maximo, ti, outputs, afin, Zopt, afinbest,
                 objf, objfold, ii, found, tracked, calls, last, res>>

\* a sweep update that leaves out the rescaling afin *= w0
SweepUpdateUnscaled(af, jj, w) ==
  Vec([c \in 1..Len(af) |-> IF c = jj + 1 THEN af[c] + w[2] ELSE af[c]], Len(af))

\* the rule of the fold applied in a sweep: scale, then set entry j to w1
SweepUpdateSetting(af, jj, w) ==
  Vec([c \in 1..Len(af) |-> IF c = jj + 1 THEN w[2] ELSE af[c] * w[1]], Len(af))

\* lines 634-635: afin *= w0; afin[j] += w1
SweepUpdate(af, jj, w) ==
  Vec([c \in 1..Len(af) |-> IF c = jj + 1 THEN af[c] * w[1] + w[2] ELSE af[c] * w[1]],
      Len(af))

\* lines 620-635: the refinement of variable j in a sweep.  afin is updated
\* in place, so an afinbest that is the same array changes with it
SweepStep ==
  /\ pc = "sweep"
  /\ j < p
  /\ LET r == gridplane_2(Zopt, Column(Z, j + 1), afin[j + 1], ndir, most, square_pi)
     IN  /\ wi' = r.wi
         /\ maximo' = [n |-> r.maximo, d |-> E.d ^ MeasureDegree(most, square_pi)]
         /\ last' = Searched("gridplane_2", r)
         /\ Zopt' = Vec([r0 \in 1..n |-> Zopt[r0] * r.wi[1] + Z[r0][j + 1] * r.wi[2]], n)
         /\ afin' = SweepUpdate(afin, j, r.wi)
         /\ afinbest' = IF afinbest.alias
                          THEN [afinbest EXCEPT !.v = SweepUpdate(afin, j, r.wi)]
                          ELSE afinbest
  /\ j' = j + 1
  /\ pc' = IF j + 1 < p THEN "sweep" ELSE "sweepend"
  /\ calls' = [calls EXCEPT !.gridplane_2 = @ + 1]
  /\ UNCHANGED <<inputs, heap, bound, err, X0, E, i, ti, outputs, objf, objfold, ii, found, tracked, res>>

\* line 648: whether the sweep's combination replaces the stored one
Replaces(new, old) == OnCommon(new, old)[1] # OnCommon(new, old)[2]

\* line 650: afin/np.sqrt(np.sum(np.square(afin))), the vector v over the
\* square root of d2
Normalised(af) == [v |-> af, d2 |-> Dot(af, af), alias |-> FALSE]

ValueLess(a, b) == OnCommon(a, b)[1] < OnCommon(a, b)[2]

\* the projection index on the data projected on a stored combination
ObjectiveOf(best) ==
  [n |-> Measure(most, square_pi, MatVec(Z, best.v)),
   d |-> (E.d * ISqrt(best.d2)) ^ MeasureDegree(most, square_pi)]

\* lines 637-656: the objective after the sweep, the stored combination
SweepEnd ==
  /\ pc = "sweepend"
  /\ objfold' = objf
  /\ objf' = ValueOn(MatVec(Z, afin))
  /\ afinbest' = IF Replaces(ValueOn(MatVec(Z, afin)), objf)
                   THEN Normalised(afin) ELSE afinbest
  /\ ii' = ii + 1
  /\ found' = IF ValueLess(found.obj, ValueOn(MatVec(Z, afin)))
                THEN [obj |-> ValueOn(MatVec(Z, afin)), afin |-> afin] ELSE found
  /\ tracked' = ObjectiveOf(IF Replaces(ValueOn(MatVec(Z, afin)), objf)
                              THEN Normalised(afin) ELSE afinbest)
  /\ calls' = [calls EXCEPT !.sweeps = @ + 1]
  /\ pc' = "while"
  /\ UNCHANGED <<inputs, heap, bound, err, X0, E, i, wi, maximo, ti, outputs, afin, Zopt, j,
                 last, res>>

\* line 659: what the loop hands on as afinbest
Handed(best, af) == [v |-> af, d2 |-> 1, alias |-> TRUE]

\* lines 659-662: the direction of the component and its objective
AfterLoop ==
  /\ pc = "afterloop"
  /\ afinbest' = Handed(afinbest, afin)
  /\ wi' = Handed(afinbest, afin).v
  /\ Maxobjf' = [Maxobjf EXCEPT ![i + 1] = objf]
  /\ pc' = "scores"
  /\ UNCHANGED <<inputs, heap, bound, err, X0, E, i, maximo, ti, W, T, P, assovec, B, bi, attrs,
                 afin, Zopt, objf, objfold, ii, j, found, tracked, calls, last, res>>

\* ------------------------------------- fit: scores, loadings, deflation --
\* line 668: E.T*ti / nti**2 for E = m/d and ti = t/d: the vector m^T t over
\* the denominator t.t (a zero score makes it 0/0)
Loading(m, t) == [v |-> TMatVec(m, t), d |-> Dot(t, t)]

\* lines 665-688: the score ti = E*wi, the loading pi, column i of W, T, P
\* and, with a response, the criterion value of the component
Scores ==
  /\ pc = "scores"
  /\ ti' = MatVec(E.m, wi)
  /\ W' = [W EXCEPT ![i + 1] = wi]
  /\ T' = [T EXCEPT ![i + 1] = [v |-> MatVec(E.m, wi), d |-> E.d]]
  /\ P' = [P EXCEPT ![i + 1] = Loading(E.m, MatVec(E.m, wi))]
  /\ assovec' = IF hasY THEN [assovec EXCEPT ![i + 1] = ValueOn(MatVec(E.m, wi))]
                ELSE assovec
  /\ pc' = "deflate"
  /\ UNCHANGED <<inputs, heap, bound, err, X0, E, i, wi, maximo, Maxobjf, B, bi, attrs, reducer,
                 calls, last, res>>

\* a deflation with the sign reversed: E += ti*pi.T
DeflatedAdding(m, d, t, pl) ==
  Reduced(Vec([r \in 1..NRows(m) |->
                 Vec([c \in 1..NCols(m) |-> pl.d * m[r][c] + t[r] * pl.v[c]],
                     NCols(m))], NRows(m)),
          d * pl.d)

\* line 691: E -= ti*pi.T, an update in place of the array E is bound to.
\* With E = m/d, ti = t/d and pi = pl.v/pl.d the result is
\* (pl.d * m - t pl.v^T) / (d * pl.d)
Deflated(m, d, t, pl) ==
  Reduced(Vec([r \in 1..NRows(m) |->
                 Vec([c \in 1..NCols(m) |-> pl.d * m[r][c] - t[r] * pl.v[c]],
                     NCols(m))], NRows(m)),
          d * pl.d)

\* lines 691-717: deflation, the rotations R (pinv2), the regression step.
\* A zero score gives NaN loadings and a NaN E; pinv2 of a NaN matrix
\* (check_finite=False) either raises LinAlgError or returns NaN.
\* Coefficient columns are named by the number of components they rest on.
\* The regression step reads its settings as locals: one that was never
\* assigned raises UnboundLocalError (lines 701 and 708).
RegressionRuns == ~hasY \/ SettingsRead(regopt) \subseteq bound

Deflate ==
  /\ pc = "deflate"
  /\ \/ /\ Dot(ti, ti) # 0
        /\ E' = [m |-> Deflated(E.m, E.d, ti, P[i + 1]).m,
                 d |-> Deflated(E.m, E.d, ti, P[i + 1]).d, nan |-> FALSE]
        /\ err' = IF RegressionRuns THEN err ELSE "UnboundLocalError"
        /\ pc' = IF ~RegressionRuns THEN "failed"
                 ELSE IF i + 1 < h THEN "opt" ELSE "finish"
        /\ B' = IF hasY /\ RegressionRuns THEN [B EXCEPT ![i + 1] = i + 1] ELSE B
        /\ bi' = IF hasY /\ RegressionRuns THEN i + 1 ELSE bi
     \/ /\ Dot(ti, ti) = 0
        /\ E' = [E EXCEPT !.nan = TRUE]
        /\ err' = IF RegressionRuns THEN err ELSE "UnboundLocalError"
        /\ pc' = IF ~RegressionRuns THEN "failed"
                 ELSE IF i + 1 < h THEN "opt" ELSE "finish"
        /\ B' = IF hasY /\ RegressionRuns THEN [B EXCEPT ![i + 1] = i + 1] ELSE B
        /\ bi' = IF hasY /\ RegressionRuns THEN i + 1 ELSE bi
     \/ /\ Dot(ti, ti) = 0
        /\ E' = [E EXCEPT !.nan = TRUE]
        /\ err' = "LinAlgError"
        /\ pc' = "failed"
        /\ UNCHANGED <<B, bi>>
  /\ i' = i + 1
  /\ calls' = NoCalls
  /\ callerX' = IF refs.E = "caller" THEN E' ELSE callerX
  /\ UNCHANGED <<inputs, refs, bound, X0, wi, maximo, ti, W, T, P, Maxobjf, assovec, attrs,
                 reducer, last, res>>

\* ------------------------------------------------------ fit: the end ----
TwoBlockAttrs == {"coef_", "intercept_", "coef_scaled_", "intercept_scaled_",
                  "residuals_", "fitted_", "y_loadings_", "y_loc_", "y_sca_"}
CommonAttrs == {"x_weights_", "x_loadings_", "x_rotations_", "x_scores_", "x_ev_",
                "crit_values_", "Maxobjf_", "x_loc_", "x_sca_", "scaling"}

\* lines 738-790: the attributes fit sets before it returns T
Finish ==
  /\ pc = "finish"
  /\ attrs' = CommonAttrs
              \cup (IF hasY THEN TwoBlockAttrs ELSE {})
              \cup (IF return_scaling_object THEN {"scaling_object_"} ELSE {})
  /\ pc' = "done"
  /\ UNCHANGED <<inputs, heap, bound, err, X0, E, i, wi, maximo, ti, W, T, P, Maxobjf, assovec,
                 B, bi, reducer, calls, last, res>>

\* lines 745 and 762: fitted_ = X0*bi + intercept, one column, for the
\* coefficients bi of the last component
fitted_ == [rows |-> "X0", cols |-> <<bi>>]

\* ------------------------------------------------ predict and transform --
\* the data a caller passes: the training data, other data with p columns,
\* data with one column more
NewData == {"X0", "Xp", "Xwide"}
ColsOf(xn) == IF xn = "Xwide" THEN p + 1 ELSE p

\* lines 793-797: the columns of np.matmul(Xn, self.coef_) + self.intercept_
predict(xn) ==
  IF "coef_" \notin attrs THEN [op |-> "predict", x |-> xn, out |-> "AttributeError"]
  ELSE IF ColsOf(xn) # p THEN [op |-> "predict", x |-> xn, out |-> "ValueError"]
  ELSE [op |-> "predict", x |-> xn, out |-> "value", rows |-> xn, cols |-> B]

\* lines 799-804: Xn scaled by the scaling object, times x_rotations_
transform(xn) ==
  IF "coef_" \notin attrs THEN [op |-> "transform", x |-> xn, out |-> "AttributeError"]
  ELSE IF ColsOf(xn) # p THEN [op |-> "transform", x |-> xn, out |-> "ValueError"]
  ELSE IF "scaling_object_" \notin attrs
    THEN [op |-> "transform", x |-> xn, out |-> "AttributeError"]
  ELSE [op |-> "transform", x |-> xn, out |-> "value", rows |-> xn,
        cols |-> Vec([k \in 1..h |-> "rotation"], h)]

Predict ==
  /\ pc = "done"
  /\ \E xn \in NewData : res' = predict(xn)
  /\ UNCHANGED <<inputs, heap, bound, pc, err, X0, E, i, wi, maximo, ti, outputs, reducer,
                 calls, last>>

Transform ==
  /\ pc = "done"
  /\ \E xn \in NewData : res' = transform(xn)
  /\ UNCHANGED <<inputs, heap, bound, pc, err, X0, E, i, wi, maximo, ti, outputs, reducer,
                 calls, last>>

\* ------------------------------------------------------ specification ---
Next ==
  \/ FitBegin
  \/ Preprocess
  \/ PlaneSearch
  \/ Seed
  \/ Fold
  \/ ObjEval
  \/ While
  \/ SweepStep
  \/ SweepEnd
  \/ AfterLoop
  \/ Scores
  \/ Deflate
  \/ Finish
  \/ Predict
  \/ Transform

Spec == Init /\ [][Next]_vars

\* ------------------------------------- the outer loop on a grid of three --
\* With ndir = 3 the refinement grid of _gridplane_2 is -pi/2, 0, pi/2 and
\* holds the direction (1,0) that keeps the running combination.  The
\* coarse grid of _gridplane is then 0, pi/3, 2pi/3, with directions (1,0),
\* (1/2, s) and (-1/2, s), s = sqrt(3)/2.  On a block (a, 0) whose second
\* column is zero the three candidates project to a, a/2 and -a/2, so an
\* index that is not smaller on a than on a/2 and -a/2 makes every search
\* return (1,0): the sum index when the sum of a is >= 0, the sum of
\* squares always.  On data whose columns after the first are zero the seed
\* and the fold therefore end with afin = (1,0,...,0) and Zopt = column 0,
\* whatever the centring.  SweepStart is that state of fit, at line 604.
SweepRows == {<<0, 0, 0>>, <<1, 0, 0>>, <<2, 0, 0>>}
SweepData == [1..2 -> SweepRows]

\* the values Preprocess leaves, computed from the options
Prepared(M, centre) ==
  LET Xs == IF centre THEN Centred(M) ELSE [m |-> M, d |-> 1]
  IN  [m |-> Xs.m, d |-> Xs.d, nan |-> FALSE]

SweepStart ==
  /\ X \in SweepData
  /\ hasY \in BOOLEAN
  /\ h \in 1..Min2(MaxH, 2)
  /\ ndir = 3
  /\ maxiter \in 1..MaxIter
  /\ square_pi \in BOOLEAN
  /\ center_data \in BOOLEAN
  /\ return_scaling_object \in BOOLEAN
  /\ copy \in BOOLEAN
  /\ ykw \in (IF hasY THEN BOOLEAN ELSE {FALSE})
  /\ regopt \in (IF hasY THEN RegOpts ELSE {"OLS"})
  /\ most \in Indices
  /\ pc = "objf"
  /\ err = "none"
  /\ X0 = X
  /\ callerX = [m |-> X, d |-> 1, nan |-> FALSE]
  /\ refs = [X0 |-> "own", Xs |-> XsRef(center_data), E |-> "own"]
  /\ bound = IF hasY THEN SettingsBound(ykw, regopt) ELSE {}
  /\ E = Prepared(X, center_data)
  /\ i = 0
  /\ W = Vec([k \in 1..h |-> ZeroVec(3)], h)
  /\ T = Vec([k \in 1..h |-> [v |-> ZeroVec(2), d |-> 1]], h)
  /\ P = Vec([k \in 1..h |-> [v |-> ZeroVec(3), d |-> 1]], h)
  /\ Maxobjf = Vec([k \in 1..h |-> NoValue], h)
  /\ assovec = Vec([k \in 1..h |-> NoValue], h)
  /\ B = ZeroVec(h) /\ bi = 0
  /\ attrs = {}
  /\ ti = <<>>
  /\ afin = <<1, 0, 0>>
  /\ Zopt = Column(Prepared(X, center_data).m, 1)
  /\ wi = <<1, 0>>
  /\ maximo = [n |-> Measure(most, square_pi, Column(Prepared(X, center_data).m, 1)),
               d |-> Prepared(X, center_data).d ^ MeasureDegree(most, square_pi)]
  /\ afinbest = NoBest
  /\ objf = NoValue /\ objfold = NoValue /\ ii = 0 /\ j = 3
  /\ found = NoFound
  /\ tracked = NoValue
  /\ calls = [gridplane |-> 2, gridplane_2 |-> 0, fold |-> 1, sweeps |-> 0]
  /\ last = NoSearch
  /\ res = [op |-> "none"]

\* the outer loop of the first component, up to line 662
SweepNext ==
  \/ ObjEval
  \/ While
  \/ SweepStep
  \/ SweepEnd
  \/ AfterLoop

SpecSweep == SweepStart /\ [][SweepNext]_vars

\* -------------------------------------------------------- properties ---
InReducer == pc \in {"fold", "objf", "while", "sweep", "sweepend", "afterloop"}

C3_SweepsWithinMaxiter == calls.sweeps <= maxiter

\* C4: the direction the reducer returns is the best combination found:
\* its objective is the largest the reducer evaluated for the component.
C4_ReturnsBestFound ==
  (pc = "scores" /\ Route(p) = "reducer") => ValueOn(MatVec(Z, wi)) = found.obj

\* C5: from one arrival at the loop condition to the next, the objective
\* of the stored best combination does not decrease.
C5_BestNeverDecreases == [][pc = "sweepend" => ~ValueLess(tracked', tracked)]_vars

\* C6: whenever afinbest is assigned in or after the outer loop (lines 650
\* and 659), the assigned vector has Euclidean norm 1.
C6_BestHasUnitNorm ==
  [][(pc \in {"sweepend", "afterloop"}) =>
       (afinbest'.d2 = Dot(afinbest'.v, afinbest'.v))]_vars

\* afinbest assigned after the loop, two sweeps after the fold
C6_Witness == pc = "scores" /\ Route(p) = "reducer" /\ afinbest.alias
              /\ calls.sweeps = 2 /\ afinbest.v = wi

C8_PredictTransformContract ==
  res.op \in {"predict", "transform"} =>
    IF ColsOf(res.x) # p THEN res.out = "ValueError" ELSE res.out = "value"

\* C9: after a two-block fit, predict on the training data returns the
\* values and the shape of fitted_.
C9_PredictReproducesFitted ==
  (res.op = "predict" /\ res.x = "X0" /\ hasY) =>
    (res.out = "value" /\ res.cols = fitted_.cols)

\* C10: after the deflation of a component with non-zero score ti, the
\* residual E has zero inner product with ti.
C10_ResidualOrthogonal ==
  (i >= 1 /\ pc \notin {"deflate", "failed"} /\ ~E.nan) =>
    TMatVec(E.m, ti) = ZeroVec(p)

\* a non-zero residual after the first deflation
C10_Witness ==
  /\ i = 1 /\ pc = "opt" /\ ~E.nan
  /\ \E r \in 1..n : \E c \in 1..p : E.m[r][c] # 0

Perms == {f \in [1..p -> 1..p] : \A a, b \in 1..p : a # b => f[a] # f[b]}
RankOrders ==
  {f \in Perms : \/ \A a, b \in 1..p : a < b => Univariate[f[a]] >= Univariate[f[b]]
                 \/ \A a, b \in 1..p : a < b => Univariate[f[a]] <= Univariate[f[b]]}
C13_SeedInRankOrder ==
  (Route(p) = "reducer" /\ pc = "fold" /\ j = 2 /\ last.fn = "gridplane") =>
    \E f \in RankOrders : last.blk = <<Column(Z, f[1]), Column(Z, f[2])>>

\* C14: in every sweep, with (w0, w1) the direction the refiner returned
\* for variable j, every entry of afin is scaled by w0 and w1 is added to
\* the scaled entry j, and Zopt becomes w0*Zopt + w1*variable_j.
C14_SweepUpdateRule ==
  [][(pc = "sweep") =>
       /\ \A c \in 1..p :
            afin'[c] = wi'[1] * afin[c] + (IF c = j + 1 THEN wi'[2] ELSE 0)
       /\ \A r \in 1..n : Zopt'[r] = wi'[1] * Zopt[r] + wi'[2] * Z[r][j + 1]]_vars

\* the update of variable 0 by the direction (1,0): its entry is kept
C14_Witness ==
  /\ pc = "sweep" /\ j = 1 /\ last.fn = "gridplane_2"
  /\ wi = <<1, 0>> /\ afin[1] # 0

\* the sweep updates afin by the rule of the fold: entries scaled by w0,
\* entry j set to w1
C14_SweepAsFold ==
  [][(pc = "sweep") =>
       /\ \A c \in 1..p :
            afin'[c] = (IF c = j + 1 THEN wi'[2] ELSE wi'[1] * afin[c])
       /\ \A r \in 1..n : Zopt'[r] = wi'[1] * Zopt[r] + wi'[2] * Z[r][j + 1]]_vars

\* C15: after the seed step, after every pass of the fold and after every
\* update of a variable in a sweep, the running score is the data projected
\* on the running combination: Zopt = Z * afin.
C15_ScoreMatchesCombination ==
  (Route(p) = "reducer" /\ pc \in {"fold", "objf", "while", "sweep", "sweepend", "afterloop"})
    => Zopt = MatVec(Z, afin)

\* within a sweep, after the update of a variable, on a non-zero score
C15_Witness ==
  /\ pc = "sweep" /\ j >= 1 /\ calls.fold >= 1 /\ last.fn = "gridplane_2"
  /\ \E r \in 1..n : Zopt[r] # 0

\* C16: a two-block fit whose y is passed positionally runs its
\* regression step, for each regopt, as the fit with the keyword y does:
\* it does not fail on a setting that was never assigned.
C16_PositionalAsKeyword ==
  (hasY /\ ~ykw) => err # "UnboundLocalError"

====
